---- MODULE Spec2Model ----
(***************************************************************************)
(* RTSID: real-time screen image detection.  The model covers the          *)
(* detection worker (MonitorThread.run) interleaved with the handlers of   *)
(* the control (UI) thread of MainWindow that start and stop the worker    *)
(* and edit the shared watch list and the shared ImageWatch objects.       *)
(*                                                                         *)
(* Scores and thresholds are in hundredths (80 stands for 0.8).            *)
(***************************************************************************)
EXTENDS Integers, Sequences, FiniteSets, TLC

\* ------------------------------------------------------------------ bounds
\* size of the configuration a run builds: every ImageWatch object constructed
\* counts 2, every non-default setting held by a watch (a configured action, an
\* edited threshold, a region, the OCR flag) counts 1
MaxSize == 4
\* the longest time the work of one tick takes, in time units of 50 ms
MaxElapsed == 3

\* ------------------------------------------------------- program constants
\* ImageWatch.__init__: self.threshold = 0.8
DefaultThreshold == 80
\* MonitorThread.__init__: interval = 0.1 (seconds), in time units of 50 ms
Interval == 2
\* sct.monitors[1]: the primary monitor, width and height in model pixels
MonW == 2
MonH == 2

\* the ImageWatch objects of a run, numbered in the order of their construction
Ids == 1..(MaxSize \div 2)
\* the watch whose ticks are followed through ScenPattern: the first one created
ScenWatch == CHOOSE w \in Ids : \A v \in Ids : w <= v
\* slider positions the user moves the sensitivity slider to (of 1..100)
SliderValues == {80, 90}
\* max_val values cv2.minMaxLoc can return, in hundredths
Scores == {70, 80, 90}
\* template shapes <<w, h>>; <<0, 0>> is a template that failed to decode
NoTemplate == <<0, 0>>
TemplShapes == {NoTemplate, <<2, 1>>}
\* regions (x, y, w, h) the user can type or select
Regions == {<<0, 0, 1, 2>>, <<1, 0, 1, 1>>}
NoRegion == <<>>
\* the six configured effects, in the order run() considers them
ActionOrder == <<"move_mouse", "click", "press_key", "notify", "sound", "window_title">>
ActionNames == {ActionOrder[i] : i \in 1..Len(ActionOrder)}
\* texts the OCR engine can return, as sequences of characters
Texts == {<<>>, <<"S", "k", "i", "p">>, <<"a", "d">>, <<"s", "k", "i", "p", "!">>}
\* the found sequence [below, above, above, below, above] of the edge-trigger scenario
ScenPattern == <<FALSE, TRUE, TRUE, FALSE, TRUE>>
ScenDead == 0 - 1

VARIABLES
    watch_list,     \* MainWindow.watch_list: sequence of watch ids (shared with the worker)
    created,        \* number of ImageWatch objects constructed so far
    template,       \* [Ids -> TemplShapes]      ImageWatch.w, .h (0,0: template is None)
    threshold,      \* [Ids -> Int]              ImageWatch.threshold
    region,         \* [Ids -> region or <<>>]   ImageWatch.region
    ocr_fallback,   \* [Ids -> BOOLEAN]          ImageWatch.ocr_fallback
    actions,        \* [Ids -> SUBSET ActionNames] the truthy action fields of the watch
    triggered,      \* [Ids -> BOOLEAN]          ImageWatch._triggered (the armed flag)
    wpc,            \* position of the worker thread ("none": no MonitorThread yet)
    running,        \* MonitorThread.running
    snap,           \* the list copy made at line 84
    idx,            \* position of the for loop in the iterated list
    mon,            \* local mon: <<left, top, width, height>>
    max_val,        \* local max_val
    found,          \* local found
    actIdx,         \* which of the six action slots is considered next
    max_loc,        \* local max_loc: <<x, y>>
    cx,             \* local cx
    cy,             \* local cy
    viaOcr,         \* found was set by the OCR fallback in the current item
    elapsed,        \* local elapsed, in time units
    slept,          \* the argument of the time.sleep call in progress (0: none)
    ctl,            \* position of the control thread
    emitted,        \* number of error signals emitted by the latest worker step
    errKind,        \* the call that raised in the latest worker step ("none" if none)
    threads,        \* number of MonitorThreads started and not yet finished
    fires,          \* [Ids -> 0..2] entries of the action block since the last not-found tick
    visited,        \* the watches whose loop body was entered in the current tick
    stopRequested,  \* a handler has stored running = False in the current thread
    scen,           \* ScenDead..5: progress of ScenWatch through ScenPattern
    scenFires       \* SUBSET 1..5: scenario ticks on which ScenWatch fired

watchVars == <<template, threshold, region, ocr_fallback, actions>>
localVars == <<snap, idx, mon, max_val, found, actIdx, max_loc, cx, cy, viaOcr>>
paceVars == <<elapsed, slept>>
ghostVars == <<fires, visited, scen, scenFires>>
vars == <<watch_list, created, template, threshold, region, ocr_fallback, actions,
          triggered, wpc, running, snap, idx, mon, max_val, found, actIdx, max_loc,
          cx, cy, viaOcr, elapsed, slept, ctl, emitted, errKind, threads, fires, visited, stopRequested, scen, scenFires>>

NoMon == <<>>
NoLoc == <<0, 0>>

\* ------------------------------------------------------------ pure helpers
Lower(c) == IF c = "S" THEN "s" ELSE c

LowerText(t) == [i \in 1..Len(t) |-> Lower(t[i])]

\* sub in s, for sequences of characters
Contains(sub, s) ==
    \E i \in 0..(Len(s) - Len(sub)) : \A j \in 1..Len(sub) : s[i + j] = sub[j]

\* line 107: 'skip' in text.lower()
HasKeyword(text) == Contains(<<"s", "k", "i", "p">>, LowerText(text))

\* lines 86-90: the capture rectangle for a watch's region
MonOf(r) == IF r # NoRegion THEN <<r[1], r[2], r[3], r[4]>> ELSE <<0, 0, MonW, MonH>>

\* cv2.matchTemplate (lines 96-101) on a frame of fw x fh and a template of
\* tw x th: "ok" when the template fits; when the frame is smaller in some
\* dimension OpenCV swaps the roles of image and template if the frame is no
\* larger in both dimensions ("swap": a score is still returned), and raises
\* otherwise ("raise").
MatchShape(fw, fh, tw, th) ==
    IF fw >= tw /\ fh >= th THEN "ok"
    ELSE IF fw <= tw /\ fh <= th THEN "swap"
    ELSE "raise"

\* line 102: the positions cv2.minMaxLoc can return as max_loc, those of the
\* result array of matchTemplate
MatchLocs(fw, fh, tw, th) ==
    IF fw >= tw /\ fh >= th
    THEN {<<x, y>> : x \in 0..(fw - tw), y \in 0..(fh - th)}
    ELSE {<<x, y>> : x \in 0..(tw - fw), y \in 0..(th - fh)}

\* lines 87-88: the tuple positions of item.region in the order the dict
\* display reads them: [1] (top), [0] (left), [2] (width), [3] (height)
ReadOrder == <<2, 1, 3, 4>>

\* line 109: max_loc of an OCR detection
OcrLoc(m) == <<m[3] \div 2, m[4] \div 2>>

\* lines 113-114: cx and cy
CentreX(m, loc, t) == m[1] + loc[1] + t[1] \div 2
CentreY(m, loc, t) == m[2] + loc[2] + t[2] \div 2

\* line 137: if elapsed < self.interval
NeedsSleepLE(el, iv) == el <= iv
NeedsSleep(el, iv) == el < iv

Oversized(m, t) == m[3] < t[1] \/ m[4] < t[2]

\* lines 93-94: if item.template is None: continue
IsInertNever(t) == FALSE
IsInert(t) == t = NoTemplate

\* line 103
FoundGT(score, thr) == score > thr
Found(score, thr) == score >= thr

\* line 104
NeedOcrFlagOnly(f, flag) == flag
NeedOcr(f, flag) == ~f /\ flag

\* line 110
FireBranchLevel(f, trig) == f
FireBranch(f, trig) == f /\ ~trig

\* line 111: item._triggered = True, before the first action
TriggeredOnFireLate(t, w) == t
TriggeredOnFire(t, w) == [t EXCEPT ![w] = TRUE]

\* lines 134-135: the except clause does not touch item._triggered
ExceptTriggeredReset(t, w) == [t EXCEPT ![w] = FALSE]
ExceptTriggered(t, w) == t

\* line 132
RearmBranchNever(f) == FALSE
RearmBranch(f) == ~f

\* line 84: list(self.watch_list) is evaluated anew at the start of every tick
TickCopyOnce(prev, live) == IF prev = <<>> THEN live ELSE prev
TickCopy(prev, live) == live

\* line 84: the sequence the for loop walks is the copy, not the live list
CurrentItemsLive(copy, live) == live
CurrentItems(copy, live) == copy

\* line 84: the for loop runs to the end of the sequence
ForContinuesWhileRunning(i, n, run) == i <= n /\ run
ForContinues(i, n, run) == i <= n

\* lines 134-135: where the worker continues after a caught exception
ExceptTargetExit == "done"
ExceptTarget == "for"

\* QThread.wait(): returns when the thread has finished
WaitOver(p) == p = "done"

Iter == CurrentItems(snap, watch_list)
Item == Iter[idx]
InList(w) == \E i \in 1..Len(watch_list) : watch_list[i] = w
RemoveAt(s, i) == [j \in 1..(Len(s) - 1) |-> IF j < i THEN s[j] ELSE s[j + 1]]
\* lines 284, 404: self.monitor_thread and self.monitor_thread.isRunning()
IsRunningByFlag == running
IsRunning == wpc \notin {"none", "done"}

\* ------------------------------------------------------------------- Init
Init ==
    /\ watch_list = <<>>
    /\ created = 0
    /\ template = [w \in Ids |-> NoTemplate]
    /\ threshold = [w \in Ids |-> DefaultThreshold]
    /\ region = [w \in Ids |-> NoRegion]
    /\ ocr_fallback = [w \in Ids |-> FALSE]
    /\ actions = [w \in Ids |-> {}]
    /\ triggered = [w \in Ids |-> FALSE]
    /\ wpc = "none"
    /\ running = FALSE
    /\ snap = <<>>
    /\ idx = 0
    /\ mon = NoMon
    /\ max_val = 0
    /\ found = FALSE
    /\ actIdx = 0
    /\ max_loc = NoLoc
    /\ cx = 0
    /\ cy = 0
    /\ viaOcr = FALSE
    /\ elapsed = 0
    /\ slept = 0
    /\ ctl = "idle"
    /\ emitted = 0
    /\ errKind = "none"
    /\ threads = 0
    /\ fires = [w \in Ids |-> 0]
    /\ visited = <<>>
    /\ stopRequested = FALSE
    /\ scen = 0
    /\ scenFires = {}

\* ------------------------------------------------- ghost: scenario tracker
\* the watch w was evaluated as f and fired (or not) on its next scenario tick
ScenEval(w, f, fired) ==
    IF w # ScenWatch \/ scen = Len(ScenPattern)
    THEN UNCHANGED <<scen, scenFires>>
    ELSE IF scen # ScenDead /\ ScenPattern[scen + 1] = f
    THEN /\ scen' = scen + 1
         /\ scenFires' = IF fired THEN scenFires \cup {scen + 1} ELSE scenFires
    ELSE /\ scen' = ScenDead
         /\ scenFires' = {}

\* an error on w ends the error-free scenario of w
ScenAbort(w) ==
    IF w # ScenWatch \/ scen = Len(ScenPattern)
    THEN UNCHANGED <<scen, scenFires>>
    ELSE /\ scen' = ScenDead
         /\ scenFires' = {}

\* ------------------------------------------------------- the worker thread
\* the loop body is left for the next item: locals are dead
LeaveItem(target) ==
    /\ wpc' = target
    /\ idx' = idx + 1
    /\ mon' = NoMon
    /\ max_val' = 0
    /\ found' = FALSE
    /\ actIdx' = 0
    /\ max_loc' = NoLoc
    /\ cx' = 0
    /\ cy' = 0
    /\ viaOcr' = FALSE
    /\ UNCHANGED snap

\* lines 134-135: except Exception as e: self.error.emit(str(e))
Except(kind) ==
    /\ emitted' = 1
    /\ errKind' = kind
    /\ LeaveItem(ExceptTarget)
    /\ ScenAbort(Item)
    /\ triggered' = ExceptTriggered(triggered, Item)
    /\ UNCHANGED fires

\* line 81: self.running = True
run_set_running ==
    /\ wpc = "start"
    /\ running' = TRUE
    /\ wpc' = "while"
    /\ emitted' = 0 /\ errKind' = "none"
    /\ UNCHANGED <<watch_list, created, watchVars, triggered, localVars, ctl,
                   ghostVars, stopRequested, threads, paceVars>>

\* lines 82-84: while self.running: ... list(self.watch_list)
run_while ==
    /\ wpc = "while"
    /\ emitted' = 0 /\ errKind' = "none"
    /\ IF running
       THEN /\ wpc' = "for"
            /\ snap' = TickCopy(snap, watch_list)
            /\ idx' = 1
            /\ visited' = <<>>
            /\ UNCHANGED threads
       ELSE /\ wpc' = "done"
            /\ threads' = threads - 1
            /\ UNCHANGED <<snap, idx, visited>>
    /\ UNCHANGED <<watch_list, created, watchVars, triggered, running, mon, max_val,
                   found, actIdx, max_loc, cx, cy, viaOcr, paceVars, ctl, fires,
                   stopRequested, scen, scenFires>>

\* line 84 at the end of the sequence: the for loop is over
run_for_end ==
    /\ wpc = "for"
    /\ ~ForContinues(idx, Len(Iter), running)
    /\ wpc' = "pace"
    /\ emitted' = 0 /\ errKind' = "none"
    /\ UNCHANGED <<watch_list, created, watchVars, triggered, running, localVars, ctl,
                   ghostVars, stopRequested, threads, paceVars>>

\* the locals of the loop body that capturing does not assign
bodyRest == <<snap, idx, max_val, found, actIdx, max_loc, cx, cy, viaOcr, triggered, fires,
              scen, scenFires>>

\* lines 84-92: next item and the test "if item.region"; without a region mon
\* is sct.monitors[1] and the frame is grabbed
run_capture ==
    /\ wpc = "for"
    /\ ForContinues(idx, Len(Iter), running)
    /\ visited' = Append(visited, Item)
    /\ IF region[Item] # NoRegion
       THEN /\ wpc' = "read"
            /\ mon' = <<>>
            /\ emitted' = 0 /\ errKind' = "none"
            /\ UNCHANGED bodyRest
       ELSE \/ /\ mon' = MonOf(NoRegion)
               /\ wpc' = "match"
               /\ emitted' = 0 /\ errKind' = "none"
               /\ UNCHANGED bodyRest
            \/ Except("capture")
    /\ UNCHANGED <<watch_list, created, watchVars, running, ctl, stopRequested, threads, paceVars>>

\* lines 87-88, 91-92: one subscript item.region[k] of the dict display, each
\* a separate read of the attribute; after the fourth, mon is built and the
\* frame is grabbed
run_read_region ==
    /\ wpc = "read"
    /\ LET got == Append(mon, region[Item][ReadOrder[Len(mon) + 1]]) IN
       IF Len(got) < Len(ReadOrder)
       THEN /\ mon' = got
            /\ emitted' = 0 /\ errKind' = "none"
            /\ UNCHANGED <<wpc, bodyRest>>
       ELSE \/ /\ mon' = <<got[2], got[1], got[3], got[4]>>
               /\ wpc' = "match"
               /\ emitted' = 0 /\ errKind' = "none"
               /\ UNCHANGED bodyRest
            \/ Except("capture")
    /\ UNCHANGED <<watch_list, created, watchVars, running, ctl, visited, stopRequested,
                   threads, paceVars>>

\* lines 93-104: inert watch, template matching, threshold comparison
run_match ==
    /\ wpc = "match"
    /\ IF IsInert(template[Item])
       THEN /\ LeaveItem("for")
            /\ emitted' = 0 /\ errKind' = "none"
            /\ UNCHANGED <<triggered, fires, scen, scenFires>>
       ELSE \/ /\ MatchShape(mon[3], mon[4], template[Item][1], template[Item][2]) # "raise"
               /\ \E s \in Scores :
                    /\ max_val' = s
                    /\ found' = Found(s, threshold[Item])
                    /\ wpc' = IF NeedOcr(Found(s, threshold[Item]), ocr_fallback[Item])
                              THEN "ocr" ELSE "trans"
               /\ max_loc' \in MatchLocs(mon[3], mon[4], template[Item][1], template[Item][2])
               /\ emitted' = 0 /\ errKind' = "none"
               /\ UNCHANGED <<snap, idx, mon, actIdx, cx, cy, viaOcr, triggered, fires, scen,
                              scenFires>>
            \/ Except("match")
    /\ UNCHANGED <<watch_list, created, watchVars, running, ctl, visited,
                   stopRequested, threads, paceVars>>

\* lines 105-109: the OCR fallback
run_ocr ==
    /\ wpc = "ocr"
    /\ \/ /\ \E text \in Texts :
               /\ found' = HasKeyword(text)
               /\ viaOcr' = HasKeyword(text)
               /\ max_loc' = IF HasKeyword(text) THEN OcrLoc(mon) ELSE max_loc
          /\ wpc' = "trans"
          /\ emitted' = 0 /\ errKind' = "none"
          /\ UNCHANGED <<snap, idx, mon, max_val, actIdx, cx, cy, triggered, fires, scen,
                         scenFires>>
       \/ Except("ocr")
    /\ UNCHANGED <<watch_list, created, watchVars, running, ctl, visited,
                   stopRequested, threads, paceVars>>

\* lines 110-114 and 132-133: the edge trigger
run_transition ==
    /\ wpc = "trans"
    /\ emitted' = 0 /\ errKind' = "none"
    /\ IF FireBranch(found, triggered[Item])
       THEN /\ triggered' = TriggeredOnFire(triggered, Item)
            /\ fires' = [fires EXCEPT ![Item] = IF @ < 2 THEN @ + 1 ELSE @]
            /\ wpc' = "act"
            /\ actIdx' = 1
            /\ max_val' = 0
            /\ cx' = CentreX(mon, max_loc, template[Item])
            /\ cy' = CentreY(mon, max_loc, template[Item])
            /\ ScenEval(Item, found, TRUE)
            /\ UNCHANGED <<snap, idx, mon, found, max_loc, viaOcr>>
       ELSE /\ IF RearmBranch(found)
               THEN /\ triggered' = [triggered EXCEPT ![Item] = FALSE]
                    /\ fires' = [fires EXCEPT ![Item] = 0]
               ELSE UNCHANGED <<triggered, fires>>
            /\ ScenEval(Item, found, FALSE)
            /\ LeaveItem("for")
    /\ UNCHANGED <<watch_list, created, watchVars, running, ctl, visited,
                   stopRequested, threads, paceVars>>

\* lines 115-131: one of the six "if item.<action>: <call>" statements
run_action ==
    /\ wpc = "act"
    /\ \/ /\ emitted' = 0 /\ errKind' = "none"
          /\ IF actIdx < Len(ActionOrder)
             THEN /\ actIdx' = actIdx + 1
                  /\ UNCHANGED <<wpc, snap, idx, mon, max_val, found, max_loc, cx, cy, viaOcr>>
             ELSE LeaveItem("for")
          /\ UNCHANGED <<triggered, fires, scen, scenFires>>
       \/ /\ ActionOrder[actIdx] \in actions[Item]
          /\ Except("action")
    /\ UNCHANGED <<watch_list, created, watchVars, running, ctl, visited,
                   stopRequested, threads, paceVars>>

\* line 136: elapsed = time.time() - start
run_pace ==
    /\ wpc = "pace"
    /\ wpc' = "paced"
    /\ elapsed' \in 0..MaxElapsed
    /\ emitted' = 0 /\ errKind' = "none"
    /\ UNCHANGED <<watch_list, created, watchVars, triggered, running, localVars, ctl,
                   ghostVars, stopRequested, threads, slept>>

\* lines 137-138: the sleep is entered, or the loop condition is next
run_sleep_check ==
    /\ wpc = "paced"
    /\ IF NeedsSleep(elapsed, Interval)
       THEN /\ wpc' = "sleep"
            /\ slept' = Interval - elapsed
       ELSE /\ wpc' = "while"
            /\ slept' = 0
    /\ elapsed' = 0
    /\ emitted' = 0 /\ errKind' = "none"
    /\ UNCHANGED <<watch_list, created, watchVars, triggered, running, localVars, ctl,
                   ghostVars, stopRequested, threads>>

\* line 138: time.sleep returns
run_sleep ==
    /\ wpc = "sleep"
    /\ wpc' = "while"
    /\ slept' = 0
    /\ emitted' = 0 /\ errKind' = "none"
    /\ UNCHANGED <<watch_list, created, watchVars, triggered, running, localVars, ctl,
                   ghostVars, stopRequested, threads, elapsed>>

Worker ==
    \/ run_set_running
    \/ run_while
    \/ run_for_end
    \/ run_capture
    \/ run_read_region
    \/ run_match
    \/ run_ocr
    \/ run_transition
    \/ run_action
    \/ run_pace
    \/ run_sleep_check
    \/ run_sleep

\* ------------------------------------------------------ the control thread
workerVars == <<wpc, running, localVars, paceVars, emitted, errKind, fires, visited, scen,
                scenFires, triggered>>

\* the number of non-default settings the watches 1..n hold
RECURSIVE Settings(_, _, _, _, _)
Settings(n, thr, reg, ocr, acts) ==
    IF n = 0 THEN 0
    ELSE Cardinality(acts[n])
         + (IF thr[n] # DefaultThreshold THEN 1 ELSE 0)
         + (IF reg[n] # NoRegion THEN 1 ELSE 0)
         + (IF ocr[n] THEN 1 ELSE 0)
         + Settings(n - 1, thr, reg, ocr, acts)

ConfigSize(n, thr, reg, ocr, acts) == 2 * n + Settings(n, thr, reg, ocr, acts)

\* a configuration handler runs between two events of the control thread
Edit(thr, reg, ocr, acts) ==
    /\ ctl = "idle"
    /\ ConfigSize(created, thr, reg, ocr, acts) <= MaxSize

\* lines 289-296: one selected path; ImageWatch.__init__ (lines 48-68)
on_add ==
    /\ ctl = "idle"
    /\ 2 + ConfigSize(created, threshold, region, ocr_fallback, actions) <= MaxSize
    /\ \E shape \in TemplShapes :
         template' = [template EXCEPT ![created + 1] = shape]
    /\ created' = created + 1
    /\ watch_list' = Append(watch_list, created + 1)
    /\ UNCHANGED <<threshold, region, ocr_fallback, actions, workerVars, ctl,
                   stopRequested, threads, paceVars>>

\* lines 298-302
on_remove ==
    /\ ctl = "idle"
    /\ \E row \in 1..Len(watch_list) : watch_list' = RemoveAt(watch_list, row)
    /\ UNCHANGED <<created, watchVars, workerVars, ctl, stopRequested, threads, paceVars>>

\* lines 321-324
on_sensitivity ==
    /\ \E w \in Ids, val \in SliderValues :
         /\ InList(w)
         /\ Edit([threshold EXCEPT ![w] = val], region, ocr_fallback, actions)
         /\ threshold' = [threshold EXCEPT ![w] = val]
    /\ UNCHANGED <<watch_list, created, template, region, ocr_fallback, actions,
                   workerVars, ctl, stopRequested, threads, paceVars>>

\* lines 326-335 and 342-346
set_region ==
    /\ \E w \in Ids, r \in Regions :
         /\ InList(w)
         /\ Edit(threshold, [region EXCEPT ![w] = r], ocr_fallback, actions)
         /\ region' = [region EXCEPT ![w] = r]
    /\ UNCHANGED <<watch_list, created, template, threshold, ocr_fallback, actions,
                   workerVars, ctl, stopRequested, threads, paceVars>>

\* lines 381-384
on_ocr_toggle ==
    /\ \E w \in Ids, state \in BOOLEAN :
         /\ InList(w)
         /\ Edit(threshold, region, [ocr_fallback EXCEPT ![w] = state], actions)
         /\ ocr_fallback' = [ocr_fallback EXCEPT ![w] = state]
    /\ UNCHANGED <<watch_list, created, template, threshold, region, actions,
                   workerVars, ctl, stopRequested, threads, paceVars>>

\* the action field a of the selected watch becomes truthy (on) or falsy
SetAction(a, on) ==
    /\ \E w \in Ids :
         LET acts == [actions EXCEPT ![w] = IF on THEN @ \cup {a} ELSE @ \ {a}] IN
         /\ InList(w)
         /\ Edit(threshold, region, ocr_fallback, acts)
         /\ actions' = acts
    /\ UNCHANGED <<watch_list, created, template, threshold, region, ocr_fallback,
                   workerVars, ctl, stopRequested, threads, paceVars>>

\* lines 348-351
on_move_toggle == \E state \in BOOLEAN : SetAction("move_mouse", state)
\* lines 358-361
on_click_toggle == \E state \in BOOLEAN : SetAction("click", state)
\* lines 363-366
on_key_press == \E state \in BOOLEAN : SetAction("press_key", state)
\* lines 368-371
on_notify_toggle == \E state \in BOOLEAN : SetAction("notify", state)
\* lines 373-379: only a chosen path is stored
browse_sound == SetAction("sound", TRUE)
\* lines 398-401
on_window_activate == \E state \in BOOLEAN : SetAction("window_title", state)

\* lines 409-412: a new MonitorThread (lines 72-78) is started
on_toggle_start ==
    /\ ctl = "idle"
    /\ ~IsRunning
    /\ wpc' = "start"
    /\ running' = FALSE
    /\ stopRequested' = FALSE
    /\ threads' = IF threads < 2 THEN threads + 1 ELSE threads
    /\ snap' = <<>>
    /\ idx' = 0
    /\ visited' = <<>>
    /\ emitted' = 0 /\ errKind' = "none"
    /\ UNCHANGED <<watch_list, created, watchVars, triggered, mon, max_val, found,
                   actIdx, max_loc, cx, cy, viaOcr, paceVars, ctl, fires, scen, scenFires>>

\* lines 404-406: running = False, then wait()
on_toggle_stop ==
    /\ ctl = "idle"
    /\ IsRunning
    /\ running' = FALSE
    /\ stopRequested' = TRUE
    /\ ctl' = "wait_toggle"
    /\ UNCHANGED <<watch_list, created, watchVars, triggered, wpc, localVars,
                   emitted, errKind, threads, paceVars, ghostVars>>

\* lines 283-287
on_exit ==
    /\ ctl = "idle"
    /\ IF IsRunning
       THEN /\ running' = FALSE
            /\ stopRequested' = TRUE
            /\ ctl' = "wait_exit"
       ELSE /\ ctl' = "quit"
            /\ UNCHANGED <<running, stopRequested>>
    /\ UNCHANGED <<watch_list, created, watchVars, triggered, wpc, localVars,
                   emitted, errKind, threads, paceVars, ghostVars>>

\* monitor_thread.wait() returns (lines 286-287, 406-407)
wait_returns ==
    /\ ctl \in {"wait_toggle", "wait_exit"}
    /\ WaitOver(wpc)
    /\ ctl' = IF ctl = "wait_toggle" THEN "idle" ELSE "quit"
    /\ UNCHANGED <<watch_list, created, watchVars, workerVars, stopRequested, threads, paceVars>>

Control ==
    \/ on_add
    \/ on_remove
    \/ on_sensitivity
    \/ set_region
    \/ on_ocr_toggle
    \/ on_move_toggle
    \/ on_click_toggle
    \/ on_key_press
    \/ on_notify_toggle
    \/ browse_sound
    \/ on_window_activate
    \/ on_toggle_start
    \/ on_toggle_stop
    \/ on_exit
    \/ wait_returns

\* after QApplication.quit() (ctl = "quit") no handler runs, and the worker has
\* exited or was never started
Next == Worker \/ Control

Spec == Init /\ [][Next]_vars

\* the worker thread is scheduled whenever it can take a step, and a wait()
\* whose thread has finished returns
FairSpec == Spec /\ WF_vars(Worker) /\ WF_vars(wait_returns)

\* ------------------------------------------------------------------ claims
Waiting == ctl \in {"wait_toggle", "wait_exit"}
InBody == wpc \in {"read", "match", "ocr", "trans", "act"}

\* C1: for every watch, the action block is entered at most once between two
\* ticks that evaluate the watch as not found, whatever errors, configuration
\* edits and stops and restarts of monitoring happen in between.
C1_AtMostOncePerEpisode == \A w \in Ids : fires[w] <= 1

\* a watch that has fired is evaluated as found again (sustained detection)
C1_Witness == wpc = "trans" /\ found /\ triggered[Item] /\ fires[Item] = 1

\* the ticks among the first n of ScenPattern on which an edge-triggered watch fires
ScenExpected(n) == {t \in 1..n : ScenPattern[t] /\ (t = 1 \/ ~ScenPattern[t - 1])}

\* C2: on every tick that reaches the state transition, the watch fires iff it
\* is found and was not armed, and afterwards armed equals found; so an
\* error-free watch that starts unarmed and is evaluated as [below, above,
\* above, below, above] fires exactly on ticks 2 and 5.
C2_EdgeTrigger ==
    /\ [][(wpc = "trans" /\ wpc' # "trans") =>
            /\ (wpc' = "act") <=> (found /\ ~triggered[Item])
            /\ triggered'[Item] = found]_vars
    /\ [](scen # ScenDead => scenFires = ScenExpected(scen))
    /\ [](scen = Len(ScenPattern) => scenFires = {2, 5})

\* the whole scenario has been run: the watch re-entered the found state and fired again
C2_Witness == scen = Len(ScenPattern) /\ scenFires = {2, 5}

\* C3: when an action of a firing raises, the other configured actions of the
\* watch are still executed and the following watches are still processed.
C3_ActionFailureIsolated ==
    [][(wpc = "act" /\ emitted' = 1) =>
         /\ wpc' \in {"act", "for"}
         /\ \/ wpc' = "act"
            \/ \A j \in (actIdx + 1)..Len(ActionOrder) : ActionOrder[j] \notin actions[Item]]_vars

\* C4: an exception while a watch is processed emits one error event and the
\* loop goes on with the next watch of the same snapshot; the worker leaves
\* the loop only after a stop request.
C4_ErrorsDoNotStopLoop ==
    /\ [][(emitted' = 1 /\ idx' # idx) =>
            /\ wpc' = "for"
            /\ idx' = idx + 1
            /\ snap' = snap
            /\ running' = running]_vars
    /\ [][(wpc # "done" /\ wpc' = "done") => stopRequested]_vars
    /\ [](emitted = 1 => wpc = "for" /\ visited = SubSeq(snap, 1, idx - 1))

\* an error was reported on the first watch and the second is still to be processed
C4_Witness == emitted = 1 /\ wpc = "for" /\ idx = 2 /\ Len(snap) = 2 /\ running

\* C5: every stop request is honoured: the worker leaves its loop and the
\* stopping call returns.
C5_StopHonoured == Waiting ~> ~Waiting

\* C6: a stop request does not interrupt the tick in progress: the worker
\* exits only at the loop condition with every watch of the snapshot
\* processed, starts no tick once it has read running = False, and wait()
\* returns only when the worker has exited.
C6_StopAtTickBoundary ==
    /\ [](wpc \in {"pace", "while", "done"} => visited = snap)
    /\ [][(wpc # "done" /\ wpc' = "done") => (wpc = "while" /\ ~running)]_vars
    /\ [][(wpc = "while" /\ wpc' # "while" /\ ~running) => wpc' = "done"]_vars
    /\ [][(Waiting /\ ~Waiting') => wpc = "done"]_vars

\* a stop was requested in the middle of a two-watch tick and the second watch is processed
C6_Witness == Waiting /\ ~running /\ InBody /\ idx = 2 /\ Len(snap) = 2

\* C7: removing a watch while a tick is in flight emits no error and changes
\* no watch's armed flag or firing; the tick still processes every watch of
\* its snapshot once, and the watch under processing stays the same.
C7_RemovalSafe ==
    /\ [][Len(watch_list') < Len(watch_list) =>
            UNCHANGED <<triggered, fires, emitted, wpc, snap, idx, visited, scen, scenFires>>]_vars
    /\ [](wpc = "pace" => visited = snap)
    /\ [](InBody => idx \in 1..Len(visited) /\ idx \in 1..Len(Iter) /\ visited[idx] = Item)

\* the first watch of the snapshot was removed during the tick and the second,
\* still listed, is being evaluated
C7_Witness ==
    /\ wpc = "trans" /\ idx = 2 /\ Len(snap) = 2
    /\ ~InList(snap[1]) /\ InList(snap[2])

\* C8: a template larger than the captured frame is treated as not detected,
\* without an error event.
C8_OversizedNoError ==
    [][(wpc = "match" /\ wpc' # "match" /\ template[Item] # NoTemplate
          /\ Oversized(mon, template[Item])) =>
         /\ emitted' = 0
         /\ ~found'
         /\ wpc' \in {"ocr", "trans"}]_vars

\* C9: when the OCR fallback fails or reads no keyword, the tick takes the
\* not-found transition, so the armed flag is reset.
C9_OcrFailureIsNoDetection ==
    [][(wpc = "ocr" /\ wpc' # "ocr" /\ ~(wpc' = "trans" /\ found')) =>
         \/ wpc' = "trans" /\ ~found'
         \/ ~triggered'[Item]]_vars

\* C10: OCR is invoked only when the template score is below the threshold
\* and ocr_fallback is set; a score at or above the threshold never leads to
\* OCR.
C10_OcrGating ==
    [][(wpc = "match" /\ wpc' = "ocr") =>
         /\ max_val' < threshold[Item]
         /\ ocr_fallback[Item]]_vars

\* the score reached the threshold of a watch with ocr_fallback set: no OCR
C10_Witness ==
    /\ wpc = "trans" /\ found /\ ocr_fallback[Item]
    /\ max_val >= threshold[Item]

\* C11: a watch whose template failed to decode is inert: its armed flag is
\* false in every state, and no tick reaches the matcher, the OCR fallback, the
\* state transition or an action for it, whatever its settings and the frame.
C11_InertWatch ==
    /\ [](\A w \in Ids : template[w] = NoTemplate => ~triggered[w] /\ fires[w] = 0)
    /\ [](wpc \in {"ocr", "trans", "act"} => template[Item] # NoTemplate)
    /\ [][(wpc = "match" /\ wpc' # "match" /\ template[Item] = NoTemplate) =>
            /\ wpc' = "for"
            /\ emitted' = 0
            /\ max_val' = 0
            /\ ~found']_vars

\* an inert watch with the OCR fallback set has been captured and is about to be skipped
C11_Witness ==
    /\ wpc = "match"
    /\ template[Item] = NoTemplate
    /\ ocr_fallback[Item]

\* C12: found is true exactly when the score is at least the threshold, so a
\* score equal to the threshold is a detection and fires an unarmed watch.
C12_ThresholdBoundary ==
    /\ [][(wpc = "match" /\ wpc' \in {"ocr", "trans"}) =>
            (found' <=> max_val' >= threshold[Item])]_vars
    /\ [][(wpc = "trans" /\ wpc' # "trans" /\ max_val = threshold[Item]
             /\ found /\ ~triggered[Item]) => wpc' = "act"]_vars

\* the score equals the threshold of an unarmed watch, which is about to fire
C12_Witness ==
    /\ wpc = "trans"
    /\ max_val = threshold[Item]
    /\ found
    /\ ~triggered[Item]

\* C14: a tick processes exactly the watches listed when it started, each once
\* and in list order: a watch added during the tick waits for the next tick
\* (which copies the list again, without a restart), a removed one is still
\* processed in this tick and is in no later copy.
C14_TickSnapshot ==
    /\ [][(wpc = "while" /\ wpc' = "for") => snap' = watch_list]_vars
    /\ [](InBody => /\ idx \in 1..Len(snap)
                    /\ Item = snap[idx]
                    /\ visited = SubSeq(snap, 1, idx))
    /\ [](wpc = "for" => idx - 1 <= Len(snap) /\ visited = SubSeq(snap, 1, idx - 1))
    /\ [](wpc = "pace" => visited = snap)

\* a watch was added while the tick of a one-watch snapshot is being processed
C14_Witness ==
    /\ InBody
    /\ Len(snap) = 1
    /\ Len(watch_list) = 2
    /\ watch_list[2] # snap[1]

\* C15: the armed flag of a watch is written only by the state-transition step
\* of a tick on that watch: a tick that raises, every handler, and stopping
\* and restarting leave it unchanged, and an armed watch does not fire.
C15_ArmedFrame ==
    /\ [][triggered' # triggered =>
            /\ wpc = "trans"
            /\ emitted' = 0
            /\ \A w \in Ids : w # Item => triggered'[w] = triggered[w]]_vars
    /\ [][(emitted' = 1 /\ idx' # idx) => triggered' = triggered]_vars
    /\ [][\A w \in Ids : (triggered[w] /\ triggered'[w]) => fires'[w] = fires[w]]_vars

\* capture, matching or OCR raised on an armed watch, which is left armed
C15_Witness ==
    /\ emitted = 1
    /\ errKind \in {"capture", "match", "ocr"}
    /\ wpc = "for"
    /\ idx > 1
    /\ triggered[snap[idx - 1]]

\* C17: the armed flag is set before the first action of a firing, so a watch
\* whose action raises is left armed and does not fire again while found.
C17_ArmedBeforeActions ==
    /\ [](wpc = "act" => triggered[Item])
    /\ [][(wpc = "act" /\ emitted' = 1) => triggered'[Item] /\ fires'[Item] = 1]_vars
    /\ [][(wpc = "trans" /\ wpc' # "trans" /\ found /\ triggered[Item]) =>
            wpc' = "for" /\ triggered'[Item]]_vars

\* an action of a firing raised and the watch is armed
C17_Witness ==
    /\ emitted = 1
    /\ errKind = "action"
    /\ wpc = "for"
    /\ idx > 1
    /\ triggered[snap[idx - 1]]

\* C18: at most one MonitorThread is started and not finished at any moment: a
\* worker is started only when there is none or the previous one has exited.
C18_SingleWorker ==
    /\ [](threads <= 1)
    /\ [][threads' > threads => wpc \in {"none", "done"}]_vars

\* monitoring is restarted after an earlier worker has fired a watch
C18_Witness ==
    /\ wpc = "start"
    /\ threads = 1
    /\ \E w \in Ids : triggered[w]

\* C13: after the last watch of a tick the worker sleeps exactly
\* max(0, interval - elapsed): no sleep when the work took at least the
\* interval, and every iteration of the loop is one full tick over its copy of
\* the list, none skipped or merged.
C13_Pacing ==
    /\ [][(wpc = "paced" /\ wpc' # "paced") =>
            /\ slept' = IF Interval - elapsed > 0 THEN Interval - elapsed ELSE 0
            /\ wpc' = IF elapsed >= Interval THEN "while" ELSE "sleep"]_vars
    /\ [](wpc = "sleep" => slept \in 1..Interval)
    /\ [](wpc \in {"pace", "paced", "sleep"} => visited = snap)
    /\ [][(wpc \in {"paced", "sleep"} /\ wpc' # wpc) => wpc' \in {"sleep", "while"}]_vars
    /\ [][(wpc = "while" /\ wpc' # "while" /\ running) =>
            wpc' = "for" /\ idx' = 1 /\ visited' = <<>>]_vars

\* a tick over a watch took less than the interval and the worker sleeps the rest
C13_Witness ==
    /\ wpc = "sleep"
    /\ slept = Interval - 1
    /\ Len(snap) > 0
    /\ visited = snap

\* C16: the capture rectangle of a watch is the rectangle of one region value
\* (or the primary monitor), never a mix of the coordinates of two values.
C16_RegionReadAtomic ==
    wpc = "match" => mon \in {MonOf(r) : r \in Regions \cup {NoRegion}}

\* C19: a stop request stored while the watches of a tick are processed is seen
\* before the sleep: the worker does not enter that tick's pacing sleep.
C19_StopSeenBeforeSleep ==
    [][(wpc = "paced" /\ wpc' # "paced" /\ stopRequested /\ ~running) => wpc' # "sleep"]_vars

\* C20: for a detection through the OCR fallback the point passed to moveTo is
\* the centre of the captured region.
C20_OcrLocationIsRegionCentre ==
    (wpc = "act" /\ viaOcr) =>
        /\ cx = mon[1] + mon[3] \div 2
        /\ cy = mon[2] + mon[4] \div 2

====
